---- MODULE Spec2Model ----
(***************************************************************************)
(* State-machine model of the scale-journey application:                   *)
(*   - the navigation controller of components/ScaleJourneyApp.tsx         *)
(*     (component state, refs, window listeners, URL fragment),            *)
(*   - the index helpers of engine/scaleJourney.ts,                        *)
(*   - the stage layout and render set of the same component,             *)
(*   - the audio runtime life cycle and step scheduler of                  *)
(*     hooks/useWebAudioScaffold.ts with the helpers of lib/music.ts.      *)
(* Strings are sequences of one-character strings so that percent-encoding *)
(* and decoding are computed, not assumed.                                 *)
(***************************************************************************)
EXTENDS Integers, Sequences, FiniteSets, TLC

(* ------------------------------ bounds -------------------------------- *)

\* largest dataset handed to the component
MaxEntries == 3
\* performance.now() is not advanced beyond this value (milliseconds)
MaxTime == 400
\* the audio clock is followed up to this time (microseconds)
MaxAudioTime == 600000
\* resume() calls that may be suspended at await context.resume() at once
MaxPending == 2
\* the audio clock is followed up to this time where the step pattern has
\* to loop (microseconds)
MaxLoopTime == 2400000
\* largest dataset laid out on the stage
MaxLayoutEntries == 6

(* ------------------------- program constants -------------------------- *)

WHEEL_NAV_LOCK_MS == 180
TOUCH_NAV_LOCK_MS == 220
TOUCH_NAV_MIN_DELTA_PX == 28
TOUCH_NAV_MAX_HORIZONTAL_PX == 84
\* the step threshold of the accumulating wheel handler
WHEEL_STEP_THRESHOLD == 140

(* ------------------------------ inputs -------------------------------- *)

\* amounts by which the clock advances between events (milliseconds)
TimeSteps == {180, 220}
\* WheelEvent.deltaY values: a small one upwards, zero, a large one downwards
WheelDeltas == {-1, 0, 220}
\* Touch.clientX / Touch.clientY of the first touch of a touchstart
TouchStartXs == {0}
TouchStartYs == {28}
\* Touch.clientX / Touch.clientY of the changed touch of a touchend
TouchXs == {0, 50, 85}
TouchYs == {0, 1, 56, 118}
\* TouchEvent.touches.length values seen by touchmove
TouchCounts == {1, 2}
\* element.clientHeight / element.clientWidth of the stage; 0 is what a
\* stage that is not laid out reports
StageHeights == {0, 100, 320, 640}
StageWidths == {100, 101, 320, 1280}
\* amounts by which the audio clock advances between callbacks
\* (microseconds): within the lookahead window, and well past it
AudioClockSteps == {100000, 400000}
\* values handed to setProgress by a caller of the hook, as fractions
\* [num, den]; denominator 0 writes a number that is not finite
ProgressInputs ==
    {[num |-> -1, den |-> 1], [num |-> 0, den |-> 1], [num |-> 1, den |-> 4],
     [num |-> 1, den |-> 2], [num |-> 1, den |-> 1], [num |-> 3, den |-> 1],
     [num |-> 1, den |-> 0], [num |-> -1, den |-> 0], [num |-> 0, den |-> 0]}
\* the same where the step pattern has to loop: callbacks that come late
LoopClockSteps == {400000}
\* KeyboardEvent.key values
Keys == {"ArrowRight", "ArrowLeft", "Escape"}

\* ids of the entries, in dataset order; the second and third need escaping
EntryIds == << <<"a">>, <<"b", " ">>, <<"%">>, <<"c">> >>

\* heightMeters of the entries, in decimetres, in dataset order (the dataset
\* is sorted by height; equal heights occur); past the end of the list every
\* entry is 3 dm taller than the one before
EntryHeights == <<1, 2, 4, 4, 10, 17, 20>>

heightOf(i) ==
    IF i <= Len(EntryHeights) THEN EntryHeights[i]
    ELSE EntryHeights[Len(EntryHeights)] + 3 * (i - Len(EntryHeights))

\* the dataset with n entries
Dataset(n) == [i \in 1..n |-> [id |-> EntryIds[((i - 1) % Len(EntryIds)) + 1] \o
                                      [k \in 1..((i - 1) \div Len(EntryIds)) |-> "x"],
                               heightMeters |-> heightOf(i)]]

(* ----------------------- engine/scaleJourney.ts ----------------------- *)

Max2(a, b) == IF a >= b THEN a ELSE b
Min2(a, b) == IF a <= b THEN a ELSE b
Abs(a) == IF a < 0 THEN -a ELSE a

RECURSIVE GCD(_, _)
GCD(a, b) == IF b = 0 THEN a ELSE GCD(b, a % b)

\* the fraction n / d (d > 0) in lowest terms
Frac(n, d) == LET g == GCD(Abs(n), d) IN [num |-> n \div g, den |-> d \div g]

FracLE(f, g) == f.num * g.den <= g.num * f.den

\* a clamp that forgets the upper end
clampIndex_NoUpperBound(index, total) ==
    IF total <= 0 THEN 0 ELSE Max2(0, index)

\* indices are 0-based as in the source; entries[i] of the source is es[i + 1]
clampIndex(index, total) ==
    IF total <= 0 THEN 0 ELSE Max2(0, Min2(index, total - 1))

getNextIndex(index, total) == clampIndex(index + 1, total)

getPreviousIndex(index, total) == clampIndex(index - 1, total)

\* Array.prototype.findIndex: the first matching position, or -1
findEntryIndexBySlug(es, slug) ==
    IF \E i \in 1..Len(es) : es[i].id = slug
    THEN (CHOOSE i \in 1..Len(es) :
              /\ es[i].id = slug
              /\ \A j \in 1..(i - 1) : es[j].id # slug) - 1
    ELSE -1

\* a progress that divides by the number of entries
getProgressPercent_OverTotal(index, total) ==
    IF total <= 1 THEN [num |-> 100, den |-> 1]
    ELSE [num |-> index * 100, den |-> total]

\* (index / (total - 1)) * 100 as the exact fraction num / den
getProgressPercent(index, total) ==
    IF total <= 1 THEN [num |-> 100, den |-> 1]
    ELSE [num |-> index * 100, den |-> total - 1]

(* -------------------- URL fragment encoding/decoding ------------------ *)

\* characters encodeURIComponent leaves alone (those the model uses)
Unreserved == {"a", "b", "c", "x", "0", "2", "5", "6", "1"}
HexDigits == {"0", "1", "2", "5", "6", "a", "b", "c"}

\* UTF-8 percent escape of one character
EscapeOf(ch) ==
    CASE ch = " " -> <<"%", "2", "0">>
      [] ch = "%" -> <<"%", "2", "5">>
      [] OTHER -> <<ch>>

\* an encoder that escapes nothing
encodeURIComponent_Raw(s) == s

RECURSIVE encodeURIComponent(_)
encodeURIComponent(s) ==
    IF s = <<>> THEN <<>>
    ELSE (IF Head(s) \in Unreserved THEN <<Head(s)>> ELSE EscapeOf(Head(s)))
         \o encodeURIComponent(Tail(s))

\* the character a two-digit escape below 0x80 stands for ("?" for the
\* ASCII characters that occur in no id)
UnescapeOf(hi, lo) ==
    CASE hi = "2" /\ lo = "0" -> " "
      [] hi = "2" /\ lo = "5" -> "%"
      [] hi = "6" /\ lo = "1" -> "a"
      [] hi = "6" /\ lo = "2" -> "b"
      [] OTHER -> "?"

\* decodeURIComponent: [ok, value]; ok = FALSE is the URIError thrown on a
\* "%" that is not followed by two hex digits or that starts a byte
\* sequence that is not UTF-8 (a lone byte >= 0x80)
RECURSIVE decodeURIComponent(_)
decodeURIComponent(h) ==
    IF h = <<>> THEN [ok |-> TRUE, value |-> <<>>]
    ELSE IF Head(h) # "%"
         THEN LET rest == decodeURIComponent(Tail(h))
              IN  [ok |-> rest.ok, value |-> <<Head(h)>> \o rest.value]
         ELSE IF Len(h) < 3 \/ h[2] \notin HexDigits \/ h[3] \notin HexDigits
                 \/ h[2] \in {"a", "b", "c"}
              THEN [ok |-> FALSE, value |-> <<>>]
              ELSE LET rest == decodeURIComponent(SubSeq(h, 4, Len(h)))
                   IN  [ok |-> rest.ok,
                        value |-> <<UnescapeOf(h[2], h[3])>> \o rest.value]

(* ------------------------------- state -------------------------------- *)

VARIABLES
    entries,              \* props.entries: the dataset, a sequence of [id, heightMeters]
    phase,                \* "initial" | "mounted" | "crashed" | "unmounted"
    hash,                 \* window.location.hash ("" or "#" + fragment)
    now,                  \* performance.now(), milliseconds
    hasEntered,           \* useState(false)
    activeIndex,          \* useState(() => readInitialIndex(entries))
    isJumpMenuOpen,       \* useState(false)
    lastWheelNavigateAt,  \* lastWheelNavigateAtRef.current
    lastTouchNavigateAt,  \* lastTouchNavigateAtRef.current
    touchStart,           \* touchStartRef.current: [set, x, y]
    rendered,             \* what the effects of the last commit captured
    lastEvent,            \* the event handled last: [kind, arg] (observation only)
    isSupported,          \* useWebAudioScaffold: getAudioContextConstructor() !== null
    isMusicMuted,         \* useState(false)
    runtimeRef,           \* runtimeRef.current !== null
    runtime,              \* the JourneyAudioRuntime object, referenced or not
    progressRef,          \* progressRef.current, a fraction [num, den]
    timers,               \* ids of the window interval timers that are active
    timerSeq,             \* number of timer ids window.setInterval has handed out
    awaiting,             \* ensureContext calls suspended at await context.resume()
    stageSize             \* useState({ height: 640, width: 1280 }), pixels

navVars == <<entries, phase, hash, now, hasEntered, activeIndex, isJumpMenuOpen,
             lastWheelNavigateAt, lastTouchNavigateAt, touchStart, rendered,
             lastEvent>>

navVars_exceptLastEvent == <<entries, phase, hash, now, hasEntered, activeIndex,
                            isJumpMenuOpen, lastWheelNavigateAt, lastTouchNavigateAt,
                            touchStart, rendered>>

audioVars == <<isSupported, isMusicMuted, runtimeRef, runtime, progressRef, timers,
               timerSeq, awaiting>>

layoutVars == <<stageSize>>

vars == <<navVars, audioVars, layoutVars>>

\* an observed event (a "resumed" carries 1 when the continuation started
\* the scheduler and 0 when it found it started): its kind and, for a wheel event, its deltaY, for a
\* touchend its clientX, for a resize 1 when the size was taken and 0 when
\* not, for a hashchange 1 when its listener threw and 0 when not; a
\* touchend that finds no recorded touch start is a "touchend-idle"
Event(kind, arg) == [kind |-> kind, arg |-> arg]

NoTouchStart == [set |-> FALSE, x |-> 0, y |-> 0]
NotRendered == [mounted |-> FALSE, hasEntered |-> FALSE, index |-> 0]

\* values window.location.hash takes at load time or after the user edits
\* the address: empty, the escaped id of every pooled entry, an id written
\* with a needless escape ("%61" is "a"), and a malformed escape
FragmentInputs ==
    {<<>>, <<"#", "%", "6", "1">>, <<"#", "%">>}
    \cup {<<"#">> \o encodeURIComponent(EntryIds[i]) : i \in 1..Len(EntryIds)}

(* ----------------------------- lib/music.ts --------------------------- *)

\* tempo is in twentieths of a beat per minute, audio time in microseconds
MIN_BPM == 92
MAX_BPM == 124

\* clamp(value, 0, 1) of lib/music.ts, Math.min(Math.max(value, min), max), on
\* a fraction with a positive denominator
clampFraction(value) ==
    IF value.num < 0 THEN [num |-> 0, den |-> 1]
    ELSE IF value.num > value.den THEN [num |-> 1, den |-> 1]
    ELSE value

\* a number that is not finite is written with denominator 0: Infinity is
\* 1/0, -Infinity is -1/0 and NaN is 0/0
isFinite(value) == value.den # 0

\* clamp(Number.isFinite(value) ? value : 0, 0, 1)
clampUnit(value) ==
    clampFraction(IF isFinite(value) THEN value ELSE [num |-> 0, den |-> 1])

\* a ramp that is not held within 0..1
ramp_Unclamped(progress, start, end) ==
    IF end <= start
    THEN (IF progress.num * 100 >= end * progress.den
          THEN [num |-> 1, den |-> 1] ELSE [num |-> 0, den |-> 1])
    ELSE Frac(100 * progress.num - start * progress.den, (end - start) * progress.den)

\* ramp(progress, start, end), start and end in hundredths
ramp(progress, start, end) ==
    IF end <= start
    THEN (IF progress.num * 100 >= end * progress.den
          THEN [num |-> 1, den |-> 1] ELSE [num |-> 0, den |-> 1])
    ELSE clampFraction(Frac(100 * progress.num - start * progress.den,
                            (end - start) * progress.den))

JOURNEY_LAYER_COUNT == 5

\* getLayerMixForProgress: the five contributions as exact fractions
getLayerMixForProgress(progressValue) ==
    LET p == clampUnit(progressValue)
        r == ramp(p, 0, 28)
    IN  << Frac(68 * r.den + 32 * r.num, 100 * r.den),
           ramp(p, 14, 34),
           ramp(p, 34, 56),
           ramp(p, 56, 78),
           ramp(p, 76, 96) >>

\* progress ** 0.8 in twentieths, rounded down: the largest e with
\* (e / 20) ^ 5 <= progress ^ 4
eased(progress) ==
    LET p == Frac(progress.num, progress.den)
    IN  CHOOSE e \in 0..20 :
            /\ e * e * e * e * e * p.den * p.den * p.den * p.den
                  <= 3200000 * p.num * p.num * p.num * p.num
            /\ \/ e = 20
               \/ (e + 1) * (e + 1) * (e + 1) * (e + 1) * (e + 1)
                     * p.den * p.den * p.den * p.den
                     > 3200000 * p.num * p.num * p.num * p.num

\* MIN_BPM + eased * (MAX_BPM - MIN_BPM)
getMusicBpm(progressValue) ==
    MIN_BPM * 20 + eased(clampUnit(progressValue)) * (MAX_BPM - MIN_BPM)

\* 60 / clamp(bpm, MIN_BPM, MAX_BPM) / 4
getStepDurationSeconds(bpmValue) ==
    (60 * 1000000 * 20) \div (Min2(Max2(bpmValue, MIN_BPM * 20), MAX_BPM * 20) * 4)

(* -------------------- hooks/useWebAudioScaffold.ts -------------------- *)

\* gains in hundredths
MASTER_GAIN_DEFAULT == 22
LOOP_STEPS == 16
\* in microseconds
SCHEDULE_AHEAD_SECONDS == 180000
\* context.currentTime + 0.05, the first step of a new runtime, microseconds
FIRST_STEP_DELAY == 50000
DEFAULT_MUSIC_VOLUME == 22
\* in hundredths
LAYER_BASE_GAINS == <<24, 20, 16, 15, 20>>

\* gain.gain.setValueAtTime(0, context.currentTime) on every layer gain
SilentLayers == [index \in 1..Len(LAYER_BASE_GAINS) |-> [num |-> 0, den |-> 1]]

\* no scheduleStep call has been made
NoStep == [stepIndex |-> -1, time |-> 0, stepDuration |-> 0]

\* no JourneyAudioRuntime has been built; schedulerId 0 is null; lastStep
\* holds the arguments of the last scheduleStep call, openContexts the
\* number of AudioContext objects constructed and not closed
NoRuntime == [created |-> FALSE, contextState |-> "none", schedulerId |-> 0,
              masterGainTarget |-> 0, currentTime |-> 0, nextStepTime |-> 0,
              stepIndex |-> 0, layerGains |-> SilentLayers, lastStep |-> NoStep,
              openContexts |-> 0]

\* AudioContext.state right after construction: the host decides whether
\* the context may start at once
NewContextStates == {"suspended", "running"}

\* new JourneyAudioRuntime around a context in state st
NewRuntime(st) == [created |-> TRUE, contextState |-> st, schedulerId |-> 0,
                   masterGainTarget |-> MASTER_GAIN_DEFAULT, currentTime |-> 0,
                   nextStepTime |-> 0 + FIRST_STEP_DELAY, stepIndex |-> 0,
                   layerGains |-> SilentLayers, lastStep |-> NoStep,
                   openContexts |-> 1]

\* an ensureContext that builds a runtime on every call
needsRuntime_Always(ref) == TRUE

\* if (!runtimeRef.current), in ensureContext
needsRuntime(ref) == ~ref

\* startScheduler(rt) needs a new interval timer
schedulerMissing(rt) == rt.schedulerId = 0

\* a tick that advances the cursor by two steps for every step it schedules
RECURSIVE tick_DoubleAdvance(_, _)
tick_DoubleAdvance(rt, stepDuration) ==
    IF rt.nextStepTime < rt.currentTime + SCHEDULE_AHEAD_SECONDS
    THEN tick_DoubleAdvance([rt EXCEPT !.lastStep = [stepIndex |-> rt.stepIndex,
                                                     time |-> rt.nextStepTime,
                                                     stepDuration |-> stepDuration],
                                       !.nextStepTime = @ + 2 * stepDuration,
                                       !.stepIndex = (@ + 1) % LOOP_STEPS],
                            stepDuration)
    ELSE rt

\* a tick whose step index runs on past the end of the pattern
RECURSIVE tick_NoWrap(_, _)
tick_NoWrap(rt, stepDuration) ==
    IF rt.nextStepTime < rt.currentTime + SCHEDULE_AHEAD_SECONDS
    THEN tick_NoWrap([rt EXCEPT !.lastStep = [stepIndex |-> rt.stepIndex,
                                              time |-> rt.nextStepTime,
                                              stepDuration |-> stepDuration],
                                !.nextStepTime = @ + stepDuration,
                                !.stepIndex = @ + 1],
                     stepDuration)
    ELSE rt

\* tick(): rt afterwards; bpm and stepDuration are read from progressRef,
\* which no iteration changes
RECURSIVE tick(_, _)
tick(rt, stepDuration) ==
    IF rt.nextStepTime < rt.currentTime + SCHEDULE_AHEAD_SECONDS
    THEN tick([rt EXCEPT !.lastStep = [stepIndex |-> rt.stepIndex,
                                       time |-> rt.nextStepTime,
                                       stepDuration |-> stepDuration],
                         !.nextStepTime = @ + stepDuration,
                         !.stepIndex = (@ + 1) % LOOP_STEPS],
              stepDuration)
    ELSE rt

\* tick(): the scheduleStep calls it makes, in order
RECURSIVE scheduledSteps(_, _)
scheduledSteps(rt, stepDuration) ==
    IF rt.nextStepTime < rt.currentTime + SCHEDULE_AHEAD_SECONDS
    THEN <<[stepIndex |-> rt.stepIndex, time |-> rt.nextStepTime,
            stepDuration |-> stepDuration]>>
         \o scheduledSteps([rt EXCEPT !.nextStepTime = @ + stepDuration,
                                      !.stepIndex = (@ + 1) % LOOP_STEPS],
                           stepDuration)
    ELSE <<>>

\* getStepDurationSeconds(getMusicBpm(progressRef.current))
stepDurationNow == getStepDurationSeconds(getMusicBpm(progressRef))

\* startScheduler(rt): rt afterwards, id being the next window timer id
startScheduler(rt, id) ==
    IF schedulerMissing(rt)
    THEN tick([rt EXCEPT !.schedulerId = id], stepDurationNow)
    ELSE rt

\* startScheduler(rt): the active window timers afterwards
timersAfterStart(rt, id) ==
    IF schedulerMissing(rt) THEN timers \cup {id} ELSE timers

\* a setMasterVolume that builds a running runtime when there is none
setMasterVolume_Creating(rt, ref, value) ==
    IF ~ref THEN [NewRuntime("running") EXCEPT !.masterGainTarget = value]
    ELSE [rt EXCEPT !.masterGainTarget = value]

\* setMasterVolume(value): rt afterwards; a no-op when runtimeRef is null
setMasterVolume(rt, ref, value) ==
    IF ~ref THEN rt ELSE [rt EXCEPT !.masterGainTarget = value]

\* the targets applyLayerMix ramps the layer gains to, in hundredths:
\* layerMix[index] * LAYER_BASE_GAINS[index]
layerTargets(progressValue) ==
    [index \in 1..Len(LAYER_BASE_GAINS) |->
        LET mix == getLayerMixForProgress(progressValue)[index]
        IN  Frac(mix.num * LAYER_BASE_GAINS[index], mix.den)]

\* applyLayerMix(progressValue): rt afterwards; a no-op when runtimeRef is null
applyLayerMix(rt, ref, progressValue) ==
    IF ~ref THEN rt ELSE [rt EXCEPT !.layerGains = layerTargets(progressValue)]

\* a setProgress that drops the value when there is no runtime
setProgress_NeedsRuntime(value) ==
    IF runtimeRef
    THEN /\ progressRef' = clampUnit(value)
         /\ runtime' = applyLayerMix(runtime, runtimeRef, clampUnit(value))
    ELSE UNCHANGED <<progressRef, runtime>>

\* setProgress(value)
setProgress(value) ==
    /\ progressRef' = clampUnit(value)
    /\ runtime' = applyLayerMix(runtime, runtimeRef, clampUnit(value))

\* the unmount cleanup of the hook: the timers it leaves active
timersAfterCleanup ==
    IF runtimeRef /\ runtime.schedulerId # 0
    THEN timers \ {runtime.schedulerId}
    ELSE timers

(* ------------------- components/ScaleJourneyApp.tsx ------------------- *)

\* window.location.hash.replace(/^#/, '') then decodeURIComponent
getSlugFromHash(h) ==
    decodeURIComponent(IF h # <<>> /\ Head(h) = "#" THEN Tail(h) ELSE h)

\* [ok, index]; ok = FALSE when getSlugFromHash throws
readInitialIndex(es, h) ==
    IF Len(es) = 0 THEN [ok |-> TRUE, index |-> 0]
    ELSE LET slug == getSlugFromHash(h)
         IN  IF ~slug.ok THEN [ok |-> FALSE, index |-> 0]
             ELSE IF slug.value = <<>> THEN [ok |-> TRUE, index |-> 0]
             ELSE LET index == findEntryIndexBySlug(es, slug.value)
                  IN  [ok |-> TRUE, index |-> IF index >= 0 THEN index ELSE 0]

safeActiveIndex == clampIndex(activeIndex, Len(entries))

\* entries[safeActiveIndex] is defined
hasActiveEntry == safeActiveIndex < Len(entries)

activeEntry == entries[safeActiveIndex + 1]

progress == getProgressPercent(safeActiveIndex, Len(entries))

\* a setter that stores the requested index as it is
setActive_Unclamped(index) == activeIndex' = index

\* setActive(index)
setActive(index) == activeIndex' = clampIndex(index, Len(entries))

\* `#${encodeURIComponent(activeEntry.id)}`
newHash == <<"#">> \o encodeURIComponent(activeEntry.id)

(* ------------------------- layout and render set --------------------- *)

\* world lengths are in millimetres (heightMeters is in decimetres), ratios
\* in hundredths, pixel quantities exact fractions [num, den] with den > 0
ACTIVE_HEIGHT_RATIO == 58
ENTRY_WIDTH_FACTOR == 50
MIN_GAP_METERS == 460
MAX_GAP_METERS == 24000
EXTRA_INDEX_GAP_PX == 86
EDGE_FRAME_MARGIN_PX == 26
ADJACENT_MIN_VISIBLE_FRACTION == 16
MAX_RENDER_DISTANCE == 2

\* Math.max(min, Math.min(value, max))
clamp(value, min, max) == Max2(min, Min2(value, max))

\* entry.heightMeters in millimetres
heightMm(entry) == entry.heightMeters * 100

\* heightMeters * ENTRY_WIDTH_FACTOR * 0.5
halfWidthMeters(entry) == (heightMm(entry) * ENTRY_WIDTH_FACTOR) \div 200

\* clamp(averageHeight * 0.22 + heightDelta * 0.68 + 0.24, MIN_GAP_METERS, MAX_GAP_METERS)
gapMeters(previous, current) ==
    clamp(((heightMm(previous) + heightMm(current)) * 22) \div 200
            + (Abs(heightMm(current) - heightMm(previous)) * 68) \div 100
            + 240,
          MIN_GAP_METERS, MAX_GAP_METERS)

\* worldCenters[index], index 0-based
RECURSIVE worldCenters(_, _)
worldCenters(es, index) ==
    IF index = 0 THEN 0
    ELSE worldCenters(es, index - 1) + halfWidthMeters(es[index])
         + gapMeters(es[index], es[index + 1]) + halfWidthMeters(es[index + 1])

\* activeEntry?.heightMeters ?? minHeight, in millimetres; minHeight is
\* entries[0]?.heightMeters ?? 0.01
activeHeightMeters(es, active) ==
    IF active < Len(es) THEN heightMm(es[active + 1])
    ELSE IF Len(es) > 0 THEN heightMm(es[1])
    ELSE 10

\* targetActiveHeightPx / Math.max(activeHeightMeters, 0.01), pixels per millimetre
preferredPixelsPerMeter(es, active, size) ==
    Frac(size.height * ACTIVE_HEIGHT_RATIO, 100 * Max2(activeHeightMeters(es, active), 10))

activeNeighborIndices(es, active) ==
    {index \in {active - 1, active + 1} : index >= 0 /\ index < Len(es)}

\* twice Math.max(stageSize.width * 0.5 - EDGE_FRAME_MARGIN_PX, 32)
availableNeighborFramePx(size) == Max2(size.width - 2 * EDGE_FRAME_MARGIN_PX, 64)

\* deltaMeters - neighborHalfWidthMeters * (1 - ADJACENT_MIN_VISIBLE_FRACTION * 2)
denominator(es, active, index) ==
    Abs(worldCenters(es, index) - worldCenters(es, active))
    - (halfWidthMeters(es[index + 1]) * (100 - 2 * ADJACENT_MIN_VISIBLE_FRACTION)) \div 100

allowedPixelsPerMeter(es, active, index, size) ==
    Frac(availableNeighborFramePx(size), 2 * denominator(es, active, index))

\* Math.min(preferredPixelsPerMeter, neighborVisibilityLimit): the least of
\* the preferred scale and the scales the neighbours with a positive
\* denominator allow
pixelsPerMeter(es, active, size) ==
    LET candidates ==
            {preferredPixelsPerMeter(es, active, size)}
            \cup {allowedPixelsPerMeter(es, active, index, size) :
                     index \in {i \in activeNeighborIndices(es, active) :
                                   denominator(es, active, i) > 0}}
    IN  CHOOSE f \in candidates : \A g \in candidates : FracLE(f, g)

\* x of the entry at index, as a numerator over pixelsPerMeter.den
xOver(es, active, size, index) ==
    LET ppm == pixelsPerMeter(es, active, size)
    IN  (worldCenters(es, index) - worldCenters(es, active)) * ppm.num
        + (index - active) * EXTRA_INDEX_GAP_PX * ppm.den

\* widthPx = Math.max(8, Math.max(1, heightMeters * pixelsPerMeter) * ENTRY_WIDTH_FACTOR),
\* as a numerator over 2 * pixelsPerMeter.den
widthOver(es, active, size, index) ==
    LET ppm == pixelsPerMeter(es, active, size)
        heightPx == Max2(ppm.den, heightMm(es[index + 1]) * ppm.num)
    IN  Max2(16 * ppm.den, (heightPx * ENTRY_WIDTH_FACTOR) \div 50)

\* distancePx - widthPx * 0.5 <= viewportHalf + overscanPx
isVisible(es, active, size, index) ==
    20 * Abs(xOver(es, active, size, index)) - 5 * widthOver(es, active, size, index)
        <= 14 * size.width * pixelsPerMeter(es, active, size).den

\* an active flag carried by the active entry and everything after it
isActive_FromActiveOn(active, index) == index >= active

isActive(active, index) == index = active

\* an adjacency flag that is never set
isAdjacent_Never(active, index) == FALSE

isAdjacent(active, index) == Abs(index - active) = 1

\* a nearby flag that is always set
isNearby_Always(active, index) == TRUE

isNearby(active, index) == Abs(index - active) <= MAX_RENDER_DISTANCE

\* one item of the render set
renderedItem(es, active, size, index) ==
    [index |-> index,
     isActive |-> isActive(active, index),
     isVisible |-> isVisible(es, active, size, index),
     isAdjacent |-> isAdjacent(active, index),
     isNearby |-> isNearby(active, index),
     x |-> [num |-> xOver(es, active, size, index),
            den |-> pixelsPerMeter(es, active, size).den],
     widthPx |-> [num |-> widthOver(es, active, size, index),
                  den |-> 2 * pixelsPerMeter(es, active, size).den]]

\* entries.map(...).filter(isNearby && (isVisible || isAdjacent || isActive))
renderedEntries(es, active, size) ==
    {renderedItem(es, active, size, index) :
        index \in {i \in 0..(Len(es) - 1) :
                      /\ isNearby(active, i)
                      /\ \/ isVisible(es, active, size, i)
                         \/ isAdjacent(active, i)
                         \/ isActive(active, i)}}

\* the frame of the current state
frame == renderedEntries(entries, safeActiveIndex, stageSize)

\* the state before the first render, whatever the dataset
InitialState ==
    /\ phase = "initial"
    /\ stageSize = [height |-> 640, width |-> 1280]
    /\ hash \in FragmentInputs
    /\ now = 0
    /\ hasEntered = FALSE
    /\ activeIndex = 0
    /\ isJumpMenuOpen = FALSE
    /\ lastWheelNavigateAt = 0
    /\ lastTouchNavigateAt = 0
    /\ touchStart = NoTouchStart
    /\ rendered = NotRendered
    /\ lastEvent = Event("none", 0)
    /\ isSupported \in BOOLEAN
    /\ isMusicMuted = FALSE
    /\ runtimeRef = FALSE
    /\ runtime = NoRuntime
    /\ progressRef = [num |-> 0, den |-> 1]
    /\ timers = {}
    /\ timerSeq = 0
    /\ awaiting = <<>>

Init ==
    /\ \E n \in 0..MaxEntries : entries = Dataset(n)
    /\ InitialState

\* first render of the component: the useState initialisers run
Mount ==
    /\ phase = "initial"
    /\ LET initial == readInitialIndex(entries, hash)
       IN  /\ phase' = IF initial.ok THEN "mounted" ELSE "crashed"
           /\ activeIndex' = initial.index
    /\ lastEvent' = Event("mount", 0)
    /\ UNCHANGED layoutVars
    /\ UNCHANGED <<entries, hash, now, hasEntered, isJumpMenuOpen,
                   lastWheelNavigateAt, lastTouchNavigateAt, touchStart, rendered>>
    /\ UNCHANGED audioVars

\* the effect with dependency [activeEntry]: history.replaceState
HashWriteBack ==
    IF hasActiveEntry
       /\ (~rendered.mounted \/ rendered.index # safeActiveIndex)
       /\ hash # newHash
    THEN hash' = newHash
    ELSE hash' = hash

\* the effect with dependencies [hasEntered, progress]: setProgress(progress / 100)
ProgressEffect ==
    IF hasEntered
       /\ (~rendered.mounted \/ ~rendered.hasEntered \/ rendered.index # safeActiveIndex)
    THEN setProgress([num |-> progress.num, den |-> progress.den * 100])
    ELSE UNCHANGED <<progressRef, runtime>>

\* React commits the pending state and runs the effects whose dependencies
\* changed; the window listeners now close over the committed values
Commit ==
    /\ phase = "mounted"
    /\ rendered # [mounted |-> TRUE, hasEntered |-> hasEntered, index |-> safeActiveIndex]
    /\ HashWriteBack
    /\ rendered' = [mounted |-> TRUE, hasEntered |-> hasEntered, index |-> safeActiveIndex]
    /\ ProgressEffect
    /\ lastEvent' = Event("commit", 0)
    /\ UNCHANGED layoutVars
    /\ UNCHANGED <<entries, phase, now, hasEntered, activeIndex, isJumpMenuOpen,
                   lastWheelNavigateAt, lastTouchNavigateAt, touchStart,
                   isSupported, isMusicMuted, runtimeRef, timers, timerSeq,
                   awaiting>>

\* time passes between events
Advance ==
    /\ \E dt \in TimeSteps :
          /\ now + dt <= MaxTime
          /\ now' = now + dt
    /\ lastEvent' = Event("other", 0)
    /\ UNCHANGED layoutVars
    /\ UNCHANGED <<entries, phase, hash, hasEntered, activeIndex, isJumpMenuOpen,
                   lastWheelNavigateAt, lastTouchNavigateAt, touchStart, rendered>>
    /\ UNCHANGED audioVars

\* onHashChange: the index that is active after the listener has run on
\* fragment h; a slug that is not found, or a getSlugFromHash that throws,
\* leaves the current index
hashChangeTarget(es, h, current) ==
    LET slug == getSlugFromHash(h)
        index == IF slug.ok THEN findEntryIndexBySlug(es, slug.value) ELSE -1
    IN  IF index >= 0 THEN clampIndex(index, Len(es)) ELSE current

\* the preload effect: the indices whose images it requests
preloadTargets ==
    IF ~hasActiveEntry THEN {}
    ELSE {index \in {safeActiveIndex - 1, safeActiveIndex + 1} :
             index >= 0 /\ index < Len(entries)}

\* what the component returns: the empty-state message when there is no
\* active entry, the journey otherwise
view == IF ~hasActiveEntry THEN "empty-state" ELSE "journey"

\* the hashchange listener, attached by the first commit; the user has
\* changed the fragment to h. A getSlugFromHash that throws ends the
\* listener with an uncaught URIError.
onHashChange(h) ==
    /\ phase = "mounted"
    /\ h # hash
    /\ hash' = h
    /\ activeIndex' = IF rendered.mounted
                      THEN hashChangeTarget(entries, h, activeIndex)
                      ELSE activeIndex
    /\ lastEvent' = Event("hashchange",
                          IF rendered.mounted /\ ~getSlugFromHash(h).ok THEN 1 ELSE 0)
    /\ UNCHANGED layoutVars
    /\ UNCHANGED <<entries, phase, now, hasEntered, isJumpMenuOpen,
                   lastWheelNavigateAt, lastTouchNavigateAt, touchStart, rendered>>
    /\ UNCHANGED audioVars

\* the jump button toggles the picker
onJumpButtonClick ==
    /\ phase = "mounted"
    /\ hasActiveEntry
    /\ isJumpMenuOpen' = ~isJumpMenuOpen
    /\ lastEvent' = Event("other", 0)
    /\ UNCHANGED layoutVars
    /\ UNCHANGED <<entries, phase, hash, now, hasEntered, activeIndex,
                   lastWheelNavigateAt, lastTouchNavigateAt, touchStart, rendered>>
    /\ UNCHANGED audioVars

\* the picker's <select> reports the id of one of its options, or of none
onJumpSelectionChange(id) ==
    /\ phase = "mounted"
    /\ hasActiveEntry
    /\ isJumpMenuOpen
    /\ LET index == findEntryIndexBySlug(entries, id)
       IN  IF index >= 0
           THEN setActive(index) /\ isJumpMenuOpen' = FALSE
           ELSE UNCHANGED <<activeIndex, isJumpMenuOpen>>
    /\ lastEvent' = Event("jump", 0)
    /\ UNCHANGED layoutVars
    /\ UNCHANGED <<entries, phase, hash, now, hasEntered,
                   lastWheelNavigateAt, lastTouchNavigateAt, touchStart, rendered>>
    /\ UNCHANGED audioVars

\* listeners that are attached by the first commit
listenersAttached_OnMount == rendered.mounted

\* the keyboard, wheel and touch effects return early while hasEntered is
\* false: their listeners exist once a commit has seen hasEntered = true.
\* An event that finds no listener changes nothing.
listenersAttached == rendered.mounted /\ rendered.hasEntered

\* keydown closes over the safeActiveIndex of the commit that attached it
onKeyDown(key) ==
    /\ phase = "mounted"
    /\ CASE listenersAttached /\ key = "ArrowRight" -> setActive(rendered.index + 1)
         [] listenersAttached /\ key = "ArrowLeft" -> setActive(rendered.index - 1)
         [] OTHER -> activeIndex' = activeIndex
    /\ lastEvent' = Event(IF key \in {"ArrowRight", "ArrowLeft"} THEN key ELSE "other", 0)
    /\ UNCHANGED layoutVars
    /\ UNCHANGED <<entries, phase, hash, now, hasEntered, isJumpMenuOpen,
                   lastWheelNavigateAt, lastTouchNavigateAt, touchStart, rendered>>
    /\ UNCHANGED audioVars

\* a lock that still holds at exactly WHEEL_NAV_LOCK_MS
wheelUnlocked_Inclusive(t) == ~(t - lastWheelNavigateAt <= WHEEL_NAV_LOCK_MS)

\* the number of whole thresholds in a delta, as the accumulating handler
\* computed its steps: Math.trunc(-deltaY / WHEEL_STEP_THRESHOLD)
wheelDirection_Threshold(deltaY) ==
    IF deltaY < 0 THEN (-deltaY) \div WHEEL_STEP_THRESHOLD
    ELSE -(deltaY \div WHEEL_STEP_THRESHOLD)

\* the navigation lock of the wheel handler lets an event at time t through
wheelUnlocked(t) == ~(t - lastWheelNavigateAt < WHEEL_NAV_LOCK_MS)

\* direction of a wheel event: event.deltaY < 0 ? 1 : -1
wheelDirection(deltaY) == IF deltaY < 0 THEN 1 ELSE -1

onWheel(deltaY, onFormControl) ==
    /\ phase = "mounted"
    /\ IF ~listenersAttached \/ onFormControl \/ deltaY = 0 \/ ~wheelUnlocked(now)
       THEN UNCHANGED <<activeIndex, lastWheelNavigateAt>>
       ELSE /\ activeIndex' = clampIndex(activeIndex + wheelDirection(deltaY), Len(entries))
            /\ lastWheelNavigateAt' = now
    /\ lastEvent' = Event("wheel", deltaY)
    /\ UNCHANGED layoutVars
    /\ UNCHANGED <<entries, phase, hash, now, hasEntered, isJumpMenuOpen,
                   lastTouchNavigateAt, touchStart, rendered>>
    /\ UNCHANGED audioVars

onTouchStart(x, y, onFormControl) ==
    /\ phase = "mounted"
    /\ touchStart' = IF ~listenersAttached THEN touchStart
                     ELSE IF onFormControl THEN NoTouchStart
                     ELSE [set |-> TRUE, x |-> x, y |-> y]
    /\ lastEvent' = Event("other", 0)
    /\ UNCHANGED layoutVars
    /\ UNCHANGED <<entries, phase, hash, now, hasEntered, activeIndex, isJumpMenuOpen,
                   lastWheelNavigateAt, lastTouchNavigateAt, rendered>>
    /\ UNCHANGED audioVars

onTouchMove(touchCount) ==
    /\ phase = "mounted"
    /\ touchStart' = IF listenersAttached /\ touchStart.set /\ touchCount # 1 THEN NoTouchStart
                     ELSE touchStart
    /\ lastEvent' = Event("other", 0)
    /\ UNCHANGED layoutVars
    /\ UNCHANGED <<entries, phase, hash, now, hasEntered, activeIndex, isJumpMenuOpen,
                   lastWheelNavigateAt, lastTouchNavigateAt, rendered>>
    /\ UNCHANGED audioVars

\* the vertical travel of a swipe is long enough
swipeLongEnough(deltaY) == ~(Abs(deltaY) < TOUCH_NAV_MIN_DELTA_PX)

\* a horizontal rejection that looks at dominance alone
swipeTooHorizontal_DominanceOnly(deltaX, deltaY) == Abs(deltaX) > Abs(deltaY)

\* the swipe is rejected as a horizontal one
swipeTooHorizontal(deltaX, deltaY) ==
    Abs(deltaX) > TOUCH_NAV_MAX_HORIZONTAL_PX /\ Abs(deltaX) > Abs(deltaY)

\* a touch lock that also honours the lock of the wheel handler
touchUnlocked_SharedWithWheel(t) ==
    /\ ~(t - lastTouchNavigateAt < TOUCH_NAV_LOCK_MS)
    /\ ~(t - lastWheelNavigateAt < WHEEL_NAV_LOCK_MS)

\* the navigation lock of the touch handler lets a swipe ending at t through
touchUnlocked(t) == ~(t - lastTouchNavigateAt < TOUCH_NAV_LOCK_MS)

\* a swipe direction with the sign reversed
swipeDirection_Inverted(deltaY) == IF deltaY < 0 THEN -1 ELSE 1

\* direction of a swipe: deltaY < 0 ? 1 : -1
swipeDirection(deltaY) == IF deltaY < 0 THEN 1 ELSE -1

\* a touchend that goes on without a recorded touch start
hasTouchStart_Always(start) == TRUE

\* if (!touchStart) return, in onTouchEnd
hasTouchStart(start) == start.set

onTouchEnd(x, y) ==
    /\ phase = "mounted"
    /\ touchStart' = IF listenersAttached THEN NoTouchStart ELSE touchStart
    /\ LET deltaY == y - touchStart.y
           deltaX == x - touchStart.x
       IN  IF /\ listenersAttached
              /\ hasTouchStart(touchStart)
              /\ swipeLongEnough(deltaY)
              /\ ~swipeTooHorizontal(deltaX, deltaY)
              /\ touchUnlocked(now)
           THEN /\ activeIndex' = clampIndex(activeIndex + swipeDirection(deltaY), Len(entries))
                /\ lastTouchNavigateAt' = now
           ELSE UNCHANGED <<activeIndex, lastTouchNavigateAt>>
    /\ lastEvent' = Event(IF listenersAttached /\ touchStart.set
                          THEN "touchend" ELSE "touchend-idle", x)
    /\ UNCHANGED layoutVars
    /\ UNCHANGED <<entries, phase, hash, now, hasEntered, isJumpMenuOpen,
                   lastWheelNavigateAt, rendered>>
    /\ UNCHANGED audioVars

onTouchCancel ==
    /\ phase = "mounted"
    /\ touchStart' = IF listenersAttached THEN NoTouchStart ELSE touchStart
    /\ lastEvent' = Event("other", 0)
    /\ UNCHANGED layoutVars
    /\ UNCHANGED <<entries, phase, hash, now, hasEntered, activeIndex, isJumpMenuOpen,
                   lastWheelNavigateAt, lastTouchNavigateAt, rendered>>
    /\ UNCHANGED audioVars

\* a host check that never finds audio missing
audioUnavailable_Never == FALSE

\* if (!isSupported) return, in ensureContext and around resume() in the
\* Enter handler
audioUnavailable == ~isSupported

\* the volume the Enter handler sets after resume(), from its closure
enterVolume(muted) == IF muted THEN 0 ELSE DEFAULT_MUSIC_VOLUME

\* ensureContext up to its await, or to its end when nothing is awaited; k
\* is what the caller does once resume() has settled: thenVolume says
\* whether it goes on to setMasterVolume(enterVolume(muted))
ensureContext(k) ==
    \E st \in (IF needsRuntime(runtimeRef) THEN NewContextStates
                ELSE {runtime.contextState}) :
       LET rt == IF needsRuntime(runtimeRef)
                 THEN [NewRuntime(st) EXCEPT !.openContexts = runtime.openContexts + 1]
                 ELSE runtime
           started == applyLayerMix(startScheduler(rt, timerSeq + 1), TRUE, progressRef)
       IN  /\ runtimeRef' = TRUE
           /\ IF rt.contextState = "suspended"
              THEN /\ runtime' = rt
                   /\ awaiting' = Append(awaiting, k)
                   /\ UNCHANGED <<timers, timerSeq>>
              ELSE /\ runtime' = IF k.thenVolume
                                 THEN setMasterVolume(started, TRUE, enterVolume(k.muted))
                                 ELSE started
                   /\ timers' = timersAfterStart(rt, timerSeq + 1)
                   /\ timerSeq' = IF schedulerMissing(rt) THEN timerSeq + 1 ELSE timerSeq
                   /\ awaiting' = awaiting

\* click on the Enter button: setHasEntered(true), then resume() runs
\* ensureContext up to its await (or to its end when nothing is awaited)
Enter ==
    /\ phase = "mounted"
    /\ hasActiveEntry
    /\ ~hasEntered
    /\ hasEntered' = TRUE
    /\ lastEvent' = Event("enter", 0)
    /\ UNCHANGED layoutVars
    /\ IF audioUnavailable
       THEN UNCHANGED <<runtimeRef, runtime, timers, timerSeq, awaiting>>
       ELSE ensureContext([muted |-> isMusicMuted, thenVolume |-> TRUE])
    /\ UNCHANGED <<entries, phase, hash, now, activeIndex, isJumpMenuOpen,
                   lastWheelNavigateAt, lastTouchNavigateAt, touchStart, rendered,
                   isSupported, isMusicMuted, progressRef>>

\* a component that uses the hook calls resume() and does nothing after it
callResume ==
    /\ phase = "mounted"
    /\ Len(awaiting) < MaxPending
    /\ lastEvent' = Event("resume", 0)
    /\ UNCHANGED layoutVars
    /\ IF audioUnavailable
       THEN UNCHANGED <<runtimeRef, runtime, timers, timerSeq, awaiting>>
       ELSE ensureContext([muted |-> FALSE, thenVolume |-> FALSE])
    /\ UNCHANGED <<navVars_exceptLastEvent, isSupported, isMusicMuted, progressRef>>

\* the promise of context.resume() is fulfilled: ensureContext continues
\* with the runtime it captured, then its caller continues; the event
\* records whether this continuation started the scheduler
ResumeFulfilled ==
    /\ awaiting # <<>>
    /\ LET k == Head(awaiting)
           rt == IF runtime.contextState = "closed" THEN runtime
                 ELSE [runtime EXCEPT !.contextState = "running"]
           started == applyLayerMix(startScheduler(rt, timerSeq + 1),
                                    runtimeRef, progressRef)
       IN  /\ runtime' = IF k.thenVolume
                         THEN setMasterVolume(started, runtimeRef, enterVolume(k.muted))
                         ELSE started
           /\ timers' = timersAfterStart(rt, timerSeq + 1)
           /\ timerSeq' = IF schedulerMissing(rt) THEN timerSeq + 1 ELSE timerSeq
           /\ lastEvent' = Event("resumed", IF schedulerMissing(rt) THEN 1 ELSE 0)
    /\ awaiting' = Tail(awaiting)
    /\ UNCHANGED layoutVars
    /\ UNCHANGED <<entries, phase, hash, now, hasEntered, activeIndex, isJumpMenuOpen,
                   lastWheelNavigateAt, lastTouchNavigateAt, touchStart, rendered,
                   isSupported, isMusicMuted, runtimeRef, progressRef>>

\* the promise of context.resume() is rejected, which a host may do once
\* the context has been closed: ensureContext and the Enter handler throw
ResumeRejected ==
    /\ awaiting # <<>>
    /\ runtime.contextState = "closed"
    /\ awaiting' = Tail(awaiting)
    /\ lastEvent' = Event("resume-rejected", 0)
    /\ UNCHANGED layoutVars
    /\ UNCHANGED <<entries, phase, hash, now, hasEntered, activeIndex, isJumpMenuOpen,
                   lastWheelNavigateAt, lastTouchNavigateAt, touchStart, rendered,
                   isSupported, isMusicMuted, runtimeRef, runtime, progressRef,
                   timers, timerSeq>>

\* a size test that lets every report through
sizeAccepted_Any(height, width) == TRUE

\* if (height > 100 && width > 100)
sizeAccepted(height, width) == height > 100 /\ width > 100

\* applySize, run by the size effect after the first commit and by the
\* ResizeObserver; the stage element exists when there is an active entry
applySize(height, width) ==
    /\ phase = "mounted"
    /\ rendered.mounted
    /\ hasActiveEntry
    /\ stageSize' = IF sizeAccepted(height, width)
                    THEN [height |-> height, width |-> width]
                    ELSE stageSize
    /\ lastEvent' = Event("resize", IF sizeAccepted(height, width) THEN 1 ELSE 0)
    /\ UNCHANGED <<navVars_exceptLastEvent, audioVars>>

\* the context named by a pending resume() starts running; the promise is
\* settled, the continuation of ensureContext has yet to run
ContextStarts ==
    /\ awaiting # <<>>
    /\ runtime.contextState = "suspended"
    /\ runtime' = [runtime EXCEPT !.contextState = "running"]
    /\ lastEvent' = Event("other", 0)
    /\ UNCHANGED layoutVars
    /\ UNCHANGED <<navVars_exceptLastEvent, isSupported, isMusicMuted, runtimeRef,
                   progressRef, timers, timerSeq, awaiting>>

\* context.currentTime advances while the context is running, followed up
\* to limit
AudioClockAdvance(dt, limit) ==
    /\ runtime.created
    /\ runtime.contextState = "running"
    /\ runtime.currentTime + dt <= limit
    /\ runtime' = [runtime EXCEPT !.currentTime = @ + dt]
    /\ lastEvent' = Event("other", 0)
    /\ UNCHANGED layoutVars
    /\ UNCHANGED <<navVars_exceptLastEvent, isSupported, isMusicMuted, runtimeRef,
                   progressRef, timers, timerSeq, awaiting>>

\* the interval timer of the scheduler fires: tick() on the runtime the
\* callback closes over
Tick ==
    /\ runtime.schedulerId \in timers
    /\ runtime' = tick(runtime, stepDurationNow)
    /\ lastEvent' = Event("tick", 0)
    /\ UNCHANGED layoutVars
    /\ UNCHANGED <<navVars_exceptLastEvent, isSupported, isMusicMuted, runtimeRef,
                   progressRef, timers, timerSeq, awaiting>>

\* click on the mute button
toggleMusicMute ==
    /\ phase = "mounted"
    /\ hasActiveEntry
    /\ isMusicMuted' = ~isMusicMuted
    /\ runtime' = setMasterVolume(runtime, runtimeRef,
                                  IF ~isMusicMuted THEN 0 ELSE DEFAULT_MUSIC_VOLUME)
    /\ lastEvent' = Event("mute", 0)
    /\ UNCHANGED layoutVars
    /\ UNCHANGED <<entries, phase, hash, now, hasEntered, activeIndex, isJumpMenuOpen,
                   lastWheelNavigateAt, lastTouchNavigateAt, touchStart, rendered,
                   isSupported, runtimeRef, progressRef, timers, timerSeq, awaiting>>

\* a component that uses the hook calls setProgress(value)
callSetProgress(value) ==
    /\ phase = "mounted"
    /\ setProgress(value)
    /\ lastEvent' = Event("setProgress", 0)
    /\ UNCHANGED layoutVars
    /\ UNCHANGED <<navVars_exceptLastEvent, isSupported, isMusicMuted, runtimeRef,
                   timers, timerSeq, awaiting>>

\* the component is removed: the listeners go and the cleanup of the audio
\* hook runs
Unmount ==
    /\ phase = "mounted"
    /\ phase' = "unmounted"
    /\ timers' = timersAfterCleanup
    /\ runtimeRef' = FALSE
    /\ runtime' = IF runtimeRef
                  THEN [runtime EXCEPT !.contextState = "closed",
                                       !.openContexts = @ - 1]
                  ELSE runtime
    /\ lastEvent' = Event("unmount", 0)
    /\ UNCHANGED layoutVars
    /\ UNCHANGED <<entries, hash, now, hasEntered, activeIndex, isJumpMenuOpen,
                   lastWheelNavigateAt, lastTouchNavigateAt, touchStart, rendered,
                   isSupported, isMusicMuted, progressRef, timerSeq, awaiting>>

(* --------------------------- specification ---------------------------- *)

\* ids offered by the options of the jump picker
JumpOptions == {entries[i].id : i \in 1..Len(entries)}

Next ==
    \/ Mount
    \/ Commit
    \/ Advance
    \/ Enter
    \/ ResumeFulfilled
    \/ ResumeRejected
    \/ toggleMusicMute
    \/ ContextStarts
    \/ \E dt \in AudioClockSteps : AudioClockAdvance(dt, MaxAudioTime)
    \/ Tick
    \/ Unmount
    \/ \E h \in FragmentInputs : onHashChange(h)
    \/ onJumpButtonClick
    \/ \E id \in JumpOptions : onJumpSelectionChange(id)
    \/ \E key \in Keys : onKeyDown(key)
    \/ \E deltaY \in WheelDeltas, onFormControl \in BOOLEAN : onWheel(deltaY, onFormControl)
    \/ \E x \in TouchStartXs, y \in TouchStartYs, onFormControl \in BOOLEAN : onTouchStart(x, y, onFormControl)
    \/ \E touchCount \in TouchCounts : onTouchMove(touchCount)
    \/ \E x \in TouchXs, y \in TouchYs : onTouchEnd(x, y)
    \/ onTouchCancel
    \/ \E height \in StageHeights, width \in StageWidths : applySize(height, width)
    \/ \E value \in ProgressInputs : callSetProgress(value)
    \/ callResume

Spec == Init /\ [][Next]_vars

\* the navigation controller on a host without audio capability, mounted
\* for good
NavInit == Init /\ ~isSupported

NavNext ==
    \/ Mount
    \/ Commit
    \/ Advance
    \/ Enter
    \/ \E h \in FragmentInputs : onHashChange(h)
    \/ onJumpButtonClick
    \/ \E id \in JumpOptions : onJumpSelectionChange(id)
    \/ \E key \in Keys : onKeyDown(key)
    \/ \E deltaY \in WheelDeltas, onFormControl \in BOOLEAN : onWheel(deltaY, onFormControl)
    \/ \E x \in TouchStartXs, y \in TouchStartYs, onFormControl \in BOOLEAN : onTouchStart(x, y, onFormControl)
    \/ \E touchCount \in TouchCounts : onTouchMove(touchCount)
    \/ \E x \in TouchXs, y \in TouchYs : onTouchEnd(x, y)
    \/ onTouchCancel

NavSpec == NavInit /\ [][NavNext]_vars

\* the audio life cycle: Enter, the awaited context.resume(), mute, unmount,
\* with keyboard steps to move the progress
AudioNext ==
    \/ Mount
    \/ Commit
    \/ Enter
    \/ ResumeFulfilled
    \/ ResumeRejected
    \/ toggleMusicMute
    \/ ContextStarts
    \/ \E dt \in AudioClockSteps : AudioClockAdvance(dt, MaxAudioTime)
    \/ Tick
    \/ Unmount
    \/ \E key \in Keys : onKeyDown(key)

AudioSpec == Init /\ [][AudioNext]_vars

\* the stage: datasets of up to MaxLayoutEntries entries, deep links, the
\* jump picker and resizes
LayoutInit ==
    /\ \E n \in 0..MaxLayoutEntries : entries = Dataset(n)
    /\ InitialState
    /\ ~isSupported

LayoutNext ==
    \/ Mount
    \/ Commit
    \/ onJumpButtonClick
    \/ \E id \in JumpOptions : onJumpSelectionChange(id)
    \/ \E height \in StageHeights, width \in StageWidths : applySize(height, width)

LayoutSpec == LayoutInit /\ [][LayoutNext]_vars

\* the journey by keyboard over datasets of up to MaxLayoutEntries entries
JourneyNext ==
    \/ Mount
    \/ Commit
    \/ Enter
    \/ \E key \in Keys : onKeyDown(key)

JourneySpec == LayoutInit /\ [][JourneyNext]_vars

\* the scheduler alone, entered on a host with audio and followed long
\* enough for the step pattern to loop; the keyboard moves the progress
SchedulerInit == Init /\ isSupported /\ hash = <<>>

SchedulerNext ==
    \/ Mount
    \/ Commit
    \/ Enter
    \/ ContextStarts
    \/ ResumeFulfilled
    \/ \E dt \in LoopClockSteps : AudioClockAdvance(dt, MaxLoopTime)
    \/ Tick
    \/ \E key \in Keys : onKeyDown(key)

SchedulerSpec == SchedulerInit /\ [][SchedulerNext]_vars

\* the audio hook as a unit: its life cycle under a caller that hands
\* setProgress any number
HookNext ==
    \/ Mount
    \/ Commit
    \/ Enter
    \/ ContextStarts
    \/ ResumeFulfilled
    \/ Unmount
    \/ \E value \in ProgressInputs : callSetProgress(value)

HookSpec == Init /\ [][HookNext]_vars

\* the audio hook as a unit: its life cycle under a caller that calls
\* resume() again and again
ResumeNext ==
    \/ Mount
    \/ Commit
    \/ Enter
    \/ callResume
    \/ ContextStarts
    \/ ResumeFulfilled
    \/ ResumeRejected
    \/ toggleMusicMute
    \/ Unmount

ResumeSpec == Init /\ [][ResumeNext]_vars

(* ------------------------------- claims ------------------------------- *)

\* C1: with a non-empty dataset of n entries the active index stays within
\* 0..n-1 after any sequence of navigation events, and the index used for
\* rendering (safeActiveIndex) is that same index.
C1_ActiveIndexInRange ==
    (phase # "initial" /\ Len(entries) > 0) =>
        /\ 0 <= activeIndex
        /\ activeIndex <= Len(entries) - 1
        /\ safeActiveIndex = activeIndex

\* a step forward was attempted on the last entry of a three-entry dataset
C1_Witness ==
    /\ Len(entries) = 3
    /\ lastEvent.kind = "ArrowRight"
    /\ listenersAttached
    /\ rendered.index = 2
    /\ activeIndex = 2

\* C2: after unmount no audio scheduling interval timer is active, and none
\* is started afterwards, whatever the interleaving of the unmount with an
\* in-flight resume().
C2_NoTimerAfterUnmount == phase = "unmounted" => timers = {}

C4_WheelOutsideLockSteps ==
    [][\A deltaY \in WheelDeltas, onFormControl \in BOOLEAN :
          (lastEvent'.kind = "wheel" /\ onWheel(deltaY, onFormControl) /\ listenersAttached)
          => /\ (deltaY # 0 /\ now - lastWheelNavigateAt >= WHEEL_NAV_LOCK_MS)
                => activeIndex' = IF deltaY < 0
                                  THEN Min2(activeIndex + 1, Len(entries) - 1)
                                  ELSE Max2(activeIndex - 1, 0)
             /\ (now - lastWheelNavigateAt < WHEEL_NAV_LOCK_MS)
                => activeIndex' = activeIndex]_vars

\* C4 (amended): as C4 for wheel events whose target is not a form control;
\* a wheel event on a form control, with deltaY = 0 or inside the lock
\* changes neither the index nor the lock.
C4_WheelOutsideLockStepsOffFormControls ==
    [][\A deltaY \in WheelDeltas, onFormControl \in BOOLEAN :
          (lastEvent'.kind = "wheel" /\ onWheel(deltaY, onFormControl) /\ listenersAttached)
          => IF /\ deltaY # 0
                /\ ~onFormControl
                /\ now - lastWheelNavigateAt >= WHEEL_NAV_LOCK_MS
             THEN /\ activeIndex' = IF deltaY < 0
                                    THEN Min2(activeIndex + 1, Len(entries) - 1)
                                    ELSE Max2(activeIndex - 1, 0)
                  /\ lastWheelNavigateAt' = now
             ELSE UNCHANGED <<activeIndex, lastWheelNavigateAt>>]_vars

\* a large downward wheel event has just been accepted and has moved the
\* index from 1 to 0
C4_Witness ==
    /\ lastEvent = Event("wheel", 220)
    /\ listenersAttached
    /\ lastWheelNavigateAt = now
    /\ now >= WHEEL_NAV_LOCK_MS
    /\ rendered.index = 1
    /\ activeIndex = 0

\* C5: on a hashchange, a fragment that matches an entry id makes that
\* entry's index the active index, and a fragment that matches no entry
\* makes the active index 0.
C5_HashChangeResolvesOrFallsBack ==
    [][\A h \in FragmentInputs :
          (onHashChange(h) /\ rendered.mounted /\ Len(entries) > 0)
          => LET slug == decodeURIComponent(IF h # <<>> /\ Head(h) = "#" THEN Tail(h) ELSE h)
                 matches == {i \in 1..Len(entries) : slug.ok /\ entries[i].id = slug.value}
             IN  IF matches # {}
                 THEN activeIndex' + 1 \in matches
                 ELSE activeIndex' = 0]_vars

\* C6: after mount the active index is the index of the entry whose id
\* equals the decoded fragment, and 0 when the fragment is empty, matches no
\* entry or the dataset is empty.
C6_InitialIndexFromFragment ==
    lastEvent.kind = "mount" =>
        LET slug == decodeURIComponent(IF hash # <<>> /\ Head(hash) = "#" THEN Tail(hash) ELSE hash)
            matches == {i \in 1..Len(entries) : slug.ok /\ entries[i].id = slug.value}
        IN  /\ phase = "mounted"
            /\ IF matches # {} THEN activeIndex + 1 \in matches ELSE activeIndex = 0

\* C7: deep-link round trip. Once a change of the active index to the
\* index of an entry X has been committed (the first commit included), the
\* URL fragment is "#" followed by the encoded id of X, and the deep-link
\* lookup of that fragment, at mount or on hashchange, yields X's index.
C7_DeepLinkRoundTrip ==
    [][(/\ Commit
        /\ Len(entries) > 0
        /\ (~rendered.mounted \/ rendered.index # activeIndex))
       => /\ hash' = <<"#">> \o encodeURIComponent(entries[activeIndex + 1].id)
          /\ readInitialIndex(entries, hash') = [ok |-> TRUE, index |-> activeIndex]
          /\ \A current \in 0..(Len(entries) - 1) :
                hashChangeTarget(entries, hash', current) = activeIndex]_vars

\* the move to the third entry, whose id is "%", has been committed and the
\* fragment carries its escape
C7_Witness ==
    /\ lastEvent.kind = "commit"
    /\ Len(entries) >= 3
    /\ activeIndex = 2
    /\ rendered.index = 2
    /\ hash = <<"#", "%", "2", "5">>

C9_NoNavigationBeforeEnter ==
    [][(/\ ~hasEntered
        /\ \/ \E key \in Keys : onKeyDown(key)
           \/ \E deltaY \in WheelDeltas, onFormControl \in BOOLEAN :
                 onWheel(deltaY, onFormControl)
           \/ \E x \in TouchStartXs, y \in TouchStartYs, onFormControl \in BOOLEAN :
                 onTouchStart(x, y, onFormControl)
           \/ \E touchCount \in TouchCounts : onTouchMove(touchCount)
           \/ \E x \in TouchXs, y \in TouchYs : onTouchEnd(x, y)
           \/ onTouchCancel)
       => UNCHANGED <<activeIndex, lastWheelNavigateAt, lastTouchNavigateAt,
                      touchStart>>]_vars

\* a wheel event that would step forward arrives, outside the lock, on the
\* mounted intro screen of a dataset with somewhere to go
C9_Witness ==
    /\ lastEvent = Event("wheel", -1)
    /\ phase = "mounted"
    /\ rendered.mounted
    /\ ~hasEntered
    /\ now >= WHEEL_NAV_LOCK_MS
    /\ Len(entries) >= 2
    /\ activeIndex = 0

\* C10: a swipe (a recorded touch start followed by a touch end) whose
\* |deltaY| is below TOUCH_NAV_MIN_DELTA_PX does not navigate; one with
\* |deltaY| at or above it, a horizontal travel of at most
\* TOUCH_NAV_MAX_HORIZONTAL_PX and ending outside the touch lock moves the
\* active index by one clamped step, forwards for deltaY < 0 and backwards
\* otherwise.
C10_SwipeSteps ==
    [][\A x \in TouchXs, y \in TouchYs :
          (lastEvent'.kind = "touchend" /\ onTouchEnd(x, y) /\ listenersAttached /\ touchStart.set)
          => LET deltaY == y - touchStart.y
                 deltaX == x - touchStart.x
             IN  /\ Abs(deltaY) < TOUCH_NAV_MIN_DELTA_PX
                    => UNCHANGED <<activeIndex, lastTouchNavigateAt>>
                 /\ (/\ Abs(deltaY) >= TOUCH_NAV_MIN_DELTA_PX
                     /\ Abs(deltaX) <= TOUCH_NAV_MAX_HORIZONTAL_PX
                     /\ now - lastTouchNavigateAt >= TOUCH_NAV_LOCK_MS)
                    => activeIndex' = IF deltaY < 0
                                      THEN Min2(activeIndex + 1, Len(entries) - 1)
                                      ELSE Max2(activeIndex - 1, 0)]_vars

\* a swipe has just been accepted and has moved the index from 0 to 1
C10_Witness ==
    /\ lastEvent.kind = "touchend"
    /\ listenersAttached
    /\ ~touchStart.set
    /\ lastTouchNavigateAt = now
    /\ now >= TOUCH_NAV_LOCK_MS
    /\ rendered.index = 0
    /\ activeIndex = 1

\* C11: a swipe in which the horizontal travel dominates (|deltaX| >
\* |deltaY|) produces no navigation, even when |deltaY| meets the minimum.
C11_DominantHorizontalRejected ==
    [][\A x \in TouchXs, y \in TouchYs :
          (/\ lastEvent'.kind = "touchend" /\ onTouchEnd(x, y) /\ listenersAttached /\ touchStart.set
           /\ Abs(x - touchStart.x) > Abs(y - touchStart.y))
          => activeIndex' = activeIndex]_vars

\* C11 (amended): a swipe is rejected as horizontal only when |deltaX| is
\* both above TOUCH_NAV_MAX_HORIZONTAL_PX and above |deltaY|; a swipe whose
\* horizontal travel dominates but stays within TOUCH_NAV_MAX_HORIZONTAL_PX
\* navigates like any other swipe of sufficient vertical travel.
C11_HorizontalRejection ==
    [][\A x \in TouchXs, y \in TouchYs :
          (lastEvent'.kind = "touchend" /\ onTouchEnd(x, y) /\ listenersAttached /\ touchStart.set)
          => LET deltaY == y - touchStart.y
                 deltaX == x - touchStart.x
             IN  /\ (Abs(deltaX) > TOUCH_NAV_MAX_HORIZONTAL_PX /\ Abs(deltaX) > Abs(deltaY))
                    => UNCHANGED <<activeIndex, lastTouchNavigateAt>>
                 /\ (/\ Abs(deltaX) > Abs(deltaY)
                     /\ Abs(deltaX) <= TOUCH_NAV_MAX_HORIZONTAL_PX
                     /\ Abs(deltaY) >= TOUCH_NAV_MIN_DELTA_PX
                     /\ now - lastTouchNavigateAt >= TOUCH_NAV_LOCK_MS)
                    => /\ activeIndex' = IF deltaY < 0
                                         THEN Min2(activeIndex + 1, Len(entries) - 1)
                                         ELSE Max2(activeIndex - 1, 0)
                       /\ lastTouchNavigateAt' = now]_vars

\* a swipe that ended 50 px to the side of its start has just been accepted
\* and has moved the index forwards, which only its 28 px upward travel does
C11_Witness ==
    /\ lastEvent = Event("touchend", 50)
    /\ listenersAttached
    /\ lastTouchNavigateAt = now
    /\ lastWheelNavigateAt = 0
    /\ rendered.index = 0
    /\ activeIndex = 1

\* C12: a qualifying swipe that ends within the cooldown window after the
\* last step triggered by a wheel event or by a swipe produces no step (one
\* cooldown shared by both inputs).
C12_SharedCooldown ==
    [][\A x \in TouchXs, y \in TouchYs :
          (/\ lastEvent'.kind = "touchend" /\ onTouchEnd(x, y) /\ listenersAttached /\ touchStart.set
           /\ \/ now - lastWheelNavigateAt < WHEEL_NAV_LOCK_MS
              \/ now - lastTouchNavigateAt < TOUCH_NAV_LOCK_MS)
          => activeIndex' = activeIndex]_vars

\* C12 (amended): the swipe handler has a cooldown of its own, of
\* TOUCH_NAV_LOCK_MS, measured from the last step triggered by a swipe: a
\* qualifying swipe ending inside it produces no step, one ending outside it
\* steps whatever the wheel lock says, and neither handler touches the
\* other's lock.
C12_SeparateCooldowns ==
    [][/\ \A x \in TouchXs, y \in TouchYs :
             (/\ lastEvent'.kind = "touchend" /\ onTouchEnd(x, y) /\ listenersAttached /\ touchStart.set
              /\ Abs(y - touchStart.y) >= TOUCH_NAV_MIN_DELTA_PX
              /\ Abs(x - touchStart.x) <= TOUCH_NAV_MAX_HORIZONTAL_PX)
             => /\ IF now - lastTouchNavigateAt < TOUCH_NAV_LOCK_MS
                   THEN UNCHANGED <<activeIndex, lastTouchNavigateAt>>
                   ELSE /\ activeIndex' = IF y - touchStart.y < 0
                                          THEN Min2(activeIndex + 1, Len(entries) - 1)
                                          ELSE Max2(activeIndex - 1, 0)
                        /\ lastTouchNavigateAt' = now
                /\ lastWheelNavigateAt' = lastWheelNavigateAt
       /\ \A deltaY \in WheelDeltas, onFormControl \in BOOLEAN :
             (lastEvent'.kind = "wheel" /\ onWheel(deltaY, onFormControl))
             => lastTouchNavigateAt' = lastTouchNavigateAt]_vars

\* a wheel step and a swipe step were both accepted at the same instant: the
\* index is two ahead of the committed one
C12_Witness ==
    /\ lastEvent.kind = "touchend"
    /\ listenersAttached
    /\ lastTouchNavigateAt = now
    /\ lastWheelNavigateAt = now
    /\ activeIndex = rendered.index + 2

\* C13: for every dataset, stage size and active index, each existing
\* index-adjacent neighbour of the active entry is at least partly inside
\* the horizontal stage frame: its extent [x - widthPx/2, x + widthPx/2], x
\* as the render set computes it, meets [-stageWidth/2, +stageWidth/2].
C13_NeighboursInFrame ==
    (phase = "mounted" /\ Len(entries) > 0) =>
        \A index \in activeNeighborIndices(entries, safeActiveIndex) :
            4 * Abs(xOver(entries, safeActiveIndex, stageSize, index))
                - widthOver(entries, safeActiveIndex, stageSize, index)
            <= 2 * stageSize.width * pixelsPerMeter(entries, safeActiveIndex, stageSize).den

\* C14: in every frame produced for a non-empty dataset exactly one rendered
\* entry has isActive = TRUE, and it is the entry at activeIndex.
C14_ExactlyOneActive ==
    (phase = "mounted" /\ Len(entries) > 0) =>
        /\ Cardinality({item \in frame : item.isActive}) = 1
        /\ \A item \in frame : item.isActive <=> item.index = activeIndex

\* a frame of at least three entries around an active entry that has both
\* neighbours
C14_Witness ==
    /\ phase = "mounted"
    /\ rendered.mounted
    /\ Len(entries) >= 3
    /\ activeIndex = 1
    /\ Cardinality(frame) >= 3

\* C15: no entry whose index distance from the active index exceeds
\* MAX_RENDER_DISTANCE is in the render set, whatever its computed
\* visibility, so the render set holds at most 5 entries.
C15_RenderDistanceCap ==
    (phase = "mounted" /\ Len(entries) > 0) =>
        /\ \A item \in frame : Abs(item.index - safeActiveIndex) <= MAX_RENDER_DISTANCE
        /\ Cardinality(frame) <= 2 * MAX_RENDER_DISTANCE + 1

\* a dataset of more than five entries in which an entry three or more
\* positions from the active one is computed visible and yet not rendered
C15_Witness ==
    /\ phase = "mounted"
    /\ Len(entries) > 2 * MAX_RENDER_DISTANCE + 1
    /\ \E i \in 0..(Len(entries) - 1) :
          /\ Abs(i - safeActiveIndex) > MAX_RENDER_DISTANCE
          /\ isVisible(entries, safeActiveIndex, stageSize, i)
          /\ \A item \in frame : item.index # i

\* C16: every existing entry at index distance 1 from the active index is in
\* the render set, visible or not; an entry at distance 2 is in the render
\* set exactly when it is computed visible.
C16_AdjacentAlwaysKept ==
    (phase = "mounted" /\ Len(entries) > 0) =>
        \A i \in 0..(Len(entries) - 1) :
            /\ Abs(i - safeActiveIndex) = 1 => \E item \in frame : item.index = i
            /\ Abs(i - safeActiveIndex) = 2 =>
                  ((\E item \in frame : item.index = i)
                      <=> isVisible(entries, safeActiveIndex, stageSize, i))

\* a frame that keeps a neighbour computed out of view and leaves out an
\* entry two positions away that is out of view as well
C16_Witness ==
    /\ phase = "mounted"
    /\ \E item \in frame : item.isAdjacent /\ ~item.isVisible
    /\ \E i \in 0..(Len(entries) - 1) :
          /\ Abs(i - safeActiveIndex) = 2
          /\ ~isVisible(entries, safeActiveIndex, stageSize, i)
          /\ \A item \in frame : item.index # i

\* C17: once the scheduler has started, nextStepTime is strictly ahead of
\* the audio clock whenever a tick begins (a timer callback, or the tick
\* that startScheduler runs after an awaited resume), so that no step is
\* scheduled at a time in the past, whatever the timing of the callbacks.
C17_NextStepAheadAtTick ==
    [][(\/ Tick
        \/ (ResumeFulfilled /\ timers' # timers))
       => runtime.nextStepTime > runtime.currentTime]_vars

\* C18: every scheduling tick ends with nextStepTime at least the lookahead
\* window ahead of the audio clock and less than the window plus one
\* maximum step duration (60 / MIN_BPM / 4) ahead of it, and a timer tick
\* advances nextStepTime by less than its distance to the window plus one
\* maximum step (the work of a tick is bounded).
C18_TickBounded ==
    [][(\/ Tick
        \/ ((Enter \/ ResumeFulfilled) /\ timers' # timers))
       => /\ runtime'.nextStepTime >= runtime'.currentTime + SCHEDULE_AHEAD_SECONDS
          /\ runtime'.nextStepTime < runtime'.currentTime + SCHEDULE_AHEAD_SECONDS
                                        + getStepDurationSeconds(MIN_BPM * 20)
          /\ Tick =>
                runtime'.nextStepTime - runtime.nextStepTime
                   < Max2(0, runtime.currentTime + SCHEDULE_AHEAD_SECONDS
                                - runtime.nextStepTime)
                     + getStepDurationSeconds(MIN_BPM * 20)]_vars

\* a timer tick that came late has scheduled several steps and caught up
\* with the window
C18_Witness ==
    /\ lastEvent.kind = "tick"
    /\ runtime.currentTime >= 400000
    /\ runtime.stepIndex >= 3
    /\ runtime.nextStepTime >= runtime.currentTime + SCHEDULE_AHEAD_SECONDS

C20_UnsupportedIsInert ==
    /\ [](~isSupported =>
             /\ ~runtime.created
             /\ ~runtimeRef
             /\ timers = {}
             /\ timerSeq = 0
             /\ awaiting = <<>>)
    /\ [][/\ Enter => (hasEntered' /\ UNCHANGED <<activeIndex, hash, phase>>)
          /\ (\/ ResumeFulfilled
              \/ ResumeRejected
              \/ ContextStarts
              \/ Tick
              \/ toggleMusicMute
              \/ \E dt \in AudioClockSteps : AudioClockAdvance(dt, MaxAudioTime))
             => UNCHANGED <<hasEntered, activeIndex, hash, phase, rendered>>]_vars

\* a host without audio on which the journey was entered, muted and stepped
\* forward
C20_Witness ==
    /\ ~isSupported
    /\ hasEntered
    /\ isMusicMuted
    /\ lastEvent.kind = "ArrowRight"
    /\ activeIndex = 1
    /\ ~runtime.created

\* C21: setProgress(1.0) yields the layer mix [1, 1, 1, 1, 1] (every layer at
\* its base gain); setProgress(0) yields a mix whose base layer is above 0
\* and whose four other layers are exactly 0; a value outside [0, 1] or not
\* finite is clamped to the unit range first (a value above 1 behaves as 1,
\* a value below 0 or not finite as 0).
C21_LayerMixAtTheEnds ==
    [][\A value \in ProgressInputs :
          (lastEvent'.kind = "setProgress" /\ callSetProgress(value))
          => LET mix == getLayerMixForProgress(value)
                 one == [num |-> 1, den |-> 1]
                 zero == [num |-> 0, den |-> 1]
             IN  /\ 0 <= progressRef'.num /\ progressRef'.num <= progressRef'.den
                 /\ (value.den # 0 /\ value.num >= value.den)
                    => /\ progressRef' = one
                       /\ mix = <<one, one, one, one, one>>
                       /\ runtimeRef =>
                             \A index \in 1..JOURNEY_LAYER_COUNT :
                                runtime'.layerGains[index]
                                   = [num |-> LAYER_BASE_GAINS[index], den |-> 1]
                 /\ (value.den = 0 \/ value.num <= 0)
                    => /\ progressRef' = zero
                       /\ mix[1].num > 0
                       /\ SubSeq(mix, 2, JOURNEY_LAYER_COUNT) = <<zero, zero, zero, zero>>
                       /\ runtimeRef =>
                             /\ runtime'.layerGains[1].num > 0
                             /\ \A index \in 2..JOURNEY_LAYER_COUNT :
                                   runtime'.layerGains[index] = zero]_vars

\* setProgress has just brought every layer of an existing runtime to its
\* base gain
C21_Witness ==
    /\ lastEvent.kind = "setProgress"
    /\ runtimeRef
    /\ runtime.created
    /\ progressRef = [num |-> 1, den |-> 1]
    /\ \A index \in 1..JOURNEY_LAYER_COUNT :
          runtime.layerGains[index] = [num |-> LAYER_BASE_GAINS[index], den |-> 1]

\* C22: a report of degenerate stage dimensions (zero, or a width or height
\* not above 100 px) is rejected and the previous stage size is kept, so
\* that in every reachable state the stage size is above 100 px both ways
\* and pixelsPerMeter is a finite, strictly positive number.
C22_DegenerateSizeRejected ==
    /\ [](/\ stageSize.height > 100
          /\ stageSize.width > 100
          /\ pixelsPerMeter(entries, safeActiveIndex, stageSize).num > 0
          /\ pixelsPerMeter(entries, safeActiveIndex, stageSize).den > 0)
    /\ [][\A height \in StageHeights, width \in StageWidths :
             (lastEvent'.kind = "resize" /\ applySize(height, width)
                 /\ (height <= 100 \/ width <= 100))
             => stageSize' = stageSize]_vars

\* a stage that had been resized to 320 x 320 has made a report that was
\* not taken and kept its size
C22_Witness ==
    /\ lastEvent = Event("resize", 0)
    /\ stageSize = [height |-> 320, width |-> 320]
    /\ Len(entries) >= 2

\* C23: progress(0, N) = 0 and progress(N - 1, N) = 100 for every N > 1,
\* progress(index, total) = 100 whenever total <= 1, and for a fixed
\* total > 1 progress does not decrease as the index grows; N ranges over
\* the sizes of the datasets, and the progress of the current state is the
\* value of the function at the active index.
C23_ProgressEndpoints ==
    LET total == Len(entries)
    IN  /\ total > 1 =>
              /\ getProgressPercent(0, total).num = 0
              /\ getProgressPercent(total - 1, total).num
                    = 100 * getProgressPercent(total - 1, total).den
              /\ \A i \in 0..(total - 1), j \in 0..(total - 1) :
                    i <= j => FracLE(getProgressPercent(i, total),
                                     getProgressPercent(j, total))
        /\ total <= 1 =>
              \A index \in -1..MaxLayoutEntries :
                 getProgressPercent(index, total).num
                    = 100 * getProgressPercent(index, total).den
        /\ phase = "mounted" =>
              /\ progress = getProgressPercent(activeIndex, total)
              /\ 0 <= progress.num
              /\ progress.num <= 100 * progress.den

\* the keyboard has taken the journey over six entries to its last entry,
\* where the progress is 100
C23_Witness ==
    /\ Len(entries) = MaxLayoutEntries
    /\ lastEvent.kind = "commit"
    /\ hasEntered
    /\ activeIndex = Len(entries) - 1
    /\ progress.num = 100 * progress.den
    /\ progressRef.num = progressRef.den

\* C24: with an empty dataset the controller is inert: whatever the input
\* events, activeIndex stays 0, there is no active entry, no URL fragment is
\* written (the fragment changes only when the user changes it), no
\* neighbour is preloaded, the empty-state view is what is rendered, and no
\* event raises an exception.
C24_EmptyDatasetInert ==
    /\ []((Len(entries) = 0 /\ phase # "initial") =>
             /\ phase # "crashed"
             /\ activeIndex = 0
             /\ ~hasActiveEntry
             /\ ~hasEntered
             /\ preloadTargets = {}
             /\ view = "empty-state"
             /\ lastEvent # Event("hashchange", 1))
    /\ [][(Len(entries) = 0 /\ hash' # hash)
             => \E h \in FragmentInputs : onHashChange(h)]_vars

\* C25: stepIndex is always in 0..15; each scheduled step advances it by
\* exactly one modulo 16; consecutive scheduled steps, within a tick and
\* from one tick to the next, carry strictly increasing start times; and the
\* duration of each step is computed from the progress value that
\* progressRef holds when the step is scheduled.
C25_StepPatternLoops ==
    /\ [](/\ runtime.stepIndex \in 0..(LOOP_STEPS - 1)
          /\ runtime.lastStep # NoStep =>
                /\ runtime.lastStep.stepIndex \in 0..(LOOP_STEPS - 1)
                /\ runtime.stepIndex = (runtime.lastStep.stepIndex + 1) % LOOP_STEPS
                /\ runtime.lastStep.time < runtime.nextStepTime)
    /\ [][(\/ Tick
           \/ ((Enter \/ ResumeFulfilled) /\ timers' # timers))
          => LET rt == IF runtime.created THEN runtime ELSE NewRuntime("running")
                 steps == scheduledSteps(rt, stepDurationNow)
             IN  /\ \A k \in 1..Len(steps) :
                       /\ steps[k].stepIndex = (rt.stepIndex + k - 1) % LOOP_STEPS
                       /\ steps[k].stepDuration
                             = getStepDurationSeconds(getMusicBpm(progressRef))
                       /\ k > 1 => steps[k].time > steps[k - 1].time
                 /\ (steps # <<>> /\ rt.lastStep # NoStep)
                    => /\ steps[1].time > rt.lastStep.time
                       /\ steps[1].stepIndex = (rt.lastStep.stepIndex + 1) % LOOP_STEPS
                 /\ runtime'.stepIndex = (rt.stepIndex + Len(steps)) % LOOP_STEPS
                 /\ runtime'.lastStep = IF steps = <<>> THEN rt.lastStep
                                        ELSE steps[Len(steps)]]_vars

\* a tick that came late has scheduled several steps, the last of them the
\* first step of the second round of the pattern
C25_Witness ==
    /\ lastEvent.kind = "tick"
    /\ runtime.lastStep.stepIndex = 0
    /\ runtime.lastStep.time > 16 * getStepDurationSeconds(MAX_BPM * 20)
    /\ runtime.stepIndex = 1

\* C26: a touchend navigates only if a touch start position is recorded at
\* that moment. The position is recorded by a touchstart that is not on a
\* form control and by nothing else; a touchstart on a form control, a
\* touchmove with a touch count other than one, a touchcancel and every
\* touchend clear it, so that one gesture triggers at most one step.
C26_TouchTracking ==
    /\ [](lastEvent.kind \in {"touchend", "touchend-idle"} => ~touchStart.set)
    /\ [][/\ (touchStart'.set /\ touchStart' # touchStart)
             => /\ listenersAttached
                /\ \E x \in TouchStartXs, y \in TouchStartYs : onTouchStart(x, y, FALSE)
          /\ (/\ lastEvent'.kind \in {"touchend", "touchend-idle"}
              /\ \/ activeIndex' # activeIndex
                 \/ lastTouchNavigateAt' # lastTouchNavigateAt
              /\ \E x \in TouchXs, y \in TouchYs : onTouchEnd(x, y))
             => (touchStart.set /\ lastEvent'.kind = "touchend")
          /\ lastEvent'.kind = "touchend-idle"
             => UNCHANGED <<activeIndex, lastTouchNavigateAt, touchStart>>
          /\ (/\ lastEvent'.kind = "other"
              /\ \/ onTouchCancel
                 \/ \E touchCount \in TouchCounts \ {1} : onTouchMove(touchCount)
                 \/ \E x \in TouchStartXs, y \in TouchStartYs : onTouchStart(x, y, TRUE))
             => (~touchStart'.set /\ activeIndex' = activeIndex)]_vars

\* a swipe has stepped the index, and a touchend that came later with no
\* touchstart before it has changed nothing
C26_Witness ==
    /\ lastEvent.kind = "touchend-idle"
    /\ listenersAttached
    /\ lastTouchNavigateAt > 0
    /\ now > lastTouchNavigateAt
    /\ activeIndex = rendered.index + 1
    /\ lastWheelNavigateAt = 0

\* C27: once the Enter click handler has run to completion on a host with
\* audio (no resume() is pending any more), the master gain target is 0
\* exactly when isMusicMuted is true and DEFAULT_MUSIC_VOLUME otherwise,
\* however the clicks on the mute button interleave with the resume() the
\* handler awaits.
C27_GainFollowsMute ==
    (/\ phase = "mounted"
     /\ isSupported
     /\ hasEntered
     /\ runtimeRef
     /\ awaiting = <<>>)
    => runtime.masterGainTarget = IF isMusicMuted THEN 0 ELSE DEFAULT_MUSIC_VOLUME

\* C28: with a non-empty dataset, in every quiescent state (the last state
\* change has been committed and its effects have run) the URL fragment is
\* "#" followed by the encoded id of the active entry, whatever navigation
\* events and changes of the fragment by the user came before, a change to
\* an id that matches no entry included.
C28_FragmentNamesActiveEntry ==
    (/\ Len(entries) > 0
     /\ phase = "mounted"
     /\ rendered = [mounted |-> TRUE, hasEntered |-> hasEntered,
                    index |-> safeActiveIndex])
    => hash = newHash

\* C29: after Enter, once the state is committed and its effects have run,
\* the stored audio progress (progressRef) equals progress / 100 of the
\* active index, with or without an audio runtime, so that an update issued
\* while there is no runtime is not lost; once resume() has settled as
\* well, the gain target of each layer is getLayerMixForProgress of that
\* value times the base gain of the layer; and whenever a runtime exists
\* with no resume() pending the layer targets are those of the stored
\* progress.
C29_ProgressReachesAudio ==
    LET settled == phase = "mounted" /\ runtimeRef /\ awaiting = <<>>
        flushed == /\ phase = "mounted"
                   /\ hasEntered
                   /\ rendered = [mounted |-> TRUE, hasEntered |-> hasEntered,
                                  index |-> safeActiveIndex]
    IN  /\ flushed => progressRef.num * progress.den * 100 = progress.num * progressRef.den
        /\ (flushed /\ settled) =>
              runtime.layerGains
                 = layerTargets([num |-> progress.num, den |-> progress.den * 100])
        /\ settled => runtime.layerGains = layerTargets(progressRef)

\* the journey was entered on a suspended context and stepped to the middle
\* of three entries before resume() settled: the layers are at the mix of
\* progress 0.5
C29_Witness ==
    /\ lastEvent.kind = "resumed"
    /\ phase = "mounted"
    /\ runtimeRef
    /\ awaiting = <<>>
    /\ Len(entries) = 3
    /\ activeIndex = 1
    /\ rendered = [mounted |-> TRUE, hasEntered |-> TRUE, index |-> 1]
    /\ progressRef.num * 2 = progressRef.den
    /\ runtime.layerGains = layerTargets([num |-> 1, den |-> 2])
    /\ runtime.layerGains[3].num > 0
    /\ runtime.layerGains[4].num = 0

\* C30: at most one scheduler interval timer and at most one audio context
\* exist at any time, however many times resume() is called, calls that
\* overlap while an earlier call is still awaiting context.resume()
\* included; the timer that exists is the one of the runtime.
C30_OneTimerOneContext ==
    /\ Cardinality(timers) <= 1
    /\ timers \subseteq {runtime.schedulerId}
    /\ runtime.openContexts <= 1
    /\ timerSeq <= 1

\* two resume() calls overlapped at await context.resume(); the
\* continuation of the second has found the scheduler started by the first
C30_Witness ==
    /\ lastEvent = Event("resumed", 0)
    /\ phase = "mounted"
    /\ awaiting = <<>>
    /\ runtimeRef
    /\ runtime.contextState = "running"
    /\ runtime.openContexts = 1
    /\ timers = {runtime.schedulerId}
    /\ timerSeq = 1

====
